---- MODULE Spec2Model ----
(***************************************************************************)
(* The per-session swap state machines of the two counterparties:          *)
(*   Alice (offers E, wants X)   src/unnamed/part_000  (package alice)     *)
(*   Bob   (offers X, wants E)   src/bob/swap_state.go (package bob)       *)
(*                                                                         *)
(* Each session is driven by HandleProtocolMessage and ProtocolComplete,   *)
(* which the network calls one at a time, and by the watchdog goroutines   *)
(* the handlers spawn, which run concurrently with them.  The escrow       *)
(* contract, the wallet client and the helpers refund/ready/claimFunds/    *)
(* lockFunds/handleNotifyClaimed are not part of the source files; they    *)
(* are modelled from sections 4.1-4.3 of the specification.                *)
(*                                                                         *)
(* Time is counted in minutes.  Amounts of X are written as offsets from   *)
(* 2^53 base units (an amount a stands for 2^53 + a), the range in which   *)
(* the uint64 -> float64 conversion of the audit starts to round.          *)
(***************************************************************************)
EXTENDS Integers, Sequences, FiniteSets, TLC

\* ------------------------------------------------------------------ bounds
MaxTime == 14
MaxOffset == 1

\* ------------------------------------------------------- program constants
\* const timeoutBuffer = time.Minute * 5
timeoutBuffer == 5

\* The escrow's timeout duration (t0 = deploy + d, t1 = deploy + 2d): one
\* minute as in the scenarios of the specification, or longer than the buffer.
TimeoutDurations == {1, timeoutBuffer + 1}

\* desiredAmount of Alice and providesAmount of Bob, as offsets from 2^53.
DesiredAmounts == 0 .. MaxOffset
ProvidedAmounts == (-1) .. 0

VARIABLES
    now,        \* the wall clock (time.Now), in minutes
    alice,      \* Alice's swapState
    aliceW0,    \* Alice's pre-t0 watchdog goroutine
    aliceW1,    \* Alice's post-t1 watchdog goroutine
    aliceRet,   \* what Alice's HandleProtocolMessage returned last
    bob,        \* Bob's swapState
    bobW,       \* Bob's t0 watchdog goroutine
    bobRet,     \* what Bob's HandleProtocolMessage returned last
    chain,      \* the escrow contract on the E-chain
    xmr,        \* the joint account on the X-chain
    toAlice,    \* messages written to the stream by Bob, not yet read by Alice
    toBob,      \* messages written to the stream by Alice, not yet read by Bob
    hist,       \* history of the run: the calls submitted to chain and wallet
    mode,       \* the peer of a session: the other session, or anyone
    nextID,     \* the package variable nextID
    creating,   \* the calls of newSwapState that are running
    sessions    \* the ids of the sessions created, in the order of creation

\* The state of the process that creates the sessions.
process == <<nextID, creating, sessions>>

vars == <<now, alice, aliceW0, aliceW1, aliceRet, bob, bobW, bobRet,
          chain, xmr, toAlice, toBob, hist, mode, process>>

\* ---------------------------------------------------------------- messages
SendKeys == "SendKeys"
NotifyContractDeployed == "NotifyContractDeployed"
NotifyXMRLock == "NotifyXMRLock"
NotifyReady == "NotifyReady"
NotifyClaimed == "NotifyClaimed"
NotifyRefund == "NotifyRefund"

MessageKinds == {SendKeys, NotifyContractDeployed, NotifyXMRLock,
                 NotifyReady, NotifyClaimed, NotifyRefund}

ContractAddr == "0xC"
JointAddr == "4AB"
RefundTx == "txRefund"
ClaimTx == "txClaim"

\* Bob's SendKeysMessage: his public spend key, private view key, the hash of
\* his private spend key, and his E-chain address.
BobSendKeysMessage ==
    [type |-> SendKeys, PublicSpendKey |-> "PB", PrivateViewKey |-> "VB",
     SpendKeyHash |-> "HB", EthAddress |-> "0xB"]

\* Alice's SendKeysMessage: the same without an E-chain address.
AliceSendKeysMessage ==
    [type |-> SendKeys, PublicSpendKey |-> "PA", PrivateViewKey |-> "VA",
     SpendKeyHash |-> "HA", EthAddress |-> ""]

\* monero.NewPrivateViewKeyFromHash: the view key a spend-key hash derives.
NewPrivateViewKeyFromHash(h) ==
    CASE h = "HA" -> "VA"
      [] h = "HB" -> "VB"
      [] OTHER -> "err"

\* float64(x) of a uint64 x = 2^53 + a: exact up to 2^53, and above it
\* rounded to the nearest multiple of 2, ties to the even significand.
Float64(a) ==
    IF a <= 0 THEN a
    ELSE IF a % 2 = 0 THEN a
    ELSE IF ((a - 1) \div 2) % 2 = 0 THEN a - 1 ELSE a + 1

\* client.GetBalance(0) of the wallet opened on addr.
GetBalance(addr) ==
    IF xmr.locked /\ xmr.addr = addr
    THEN [funded |-> TRUE, Balance |-> Float64(xmr.amount)]
    ELSE [funded |-> FALSE, Balance |-> 0]

\* balance.Balance < float64(s.desiredAmount)
BalanceShort(balance, desiredAmount) ==
    ~balance.funded \/ balance.Balance < Float64(desiredAmount)


\* ------------------------------------------------------------- the escrow
\* The contract Alice deploys (section 4.2 of the specification): before t0
\* only Alice may refund, and only while setReady was not called; in [t0, t1),
\* or once ready, only Bob may claim; from t1 on only Alice may refund.
NoEscrow(d) == [escrow |-> "none", duration |-> d, t0 |-> 0, t1 |-> 0]

Deployed(t) ==
    [chain EXCEPT !.escrow = "Pending", !.t0 = t + chain.duration,
                  !.t1 = t + 2 * chain.duration]

\* Where the clock stands in the escrow's windows.
Window == IF now < chain.t0 THEN "pre" ELSE IF now < chain.t1 THEN "mid" ELSE "post"

EscrowOpen == chain.escrow \in {"Pending", "Ready"}

CanSetReady == EscrowOpen

CanClaim ==
    /\ EscrowOpen
    /\ now < chain.t1
    /\ (chain.escrow = "Ready" \/ now >= chain.t0)

CanRefund ==
    /\ EscrowOpen
    /\ \/ chain.escrow = "Pending" /\ now < chain.t0
       \/ now >= chain.t1

\* ------------------------------------------------------- common helpers
Ret(resp, done, err) == [resp |-> resp, done |-> done, err |-> err]

\* What HandleProtocolMessage returns: the kind of the response ("nil" for
\* none), the flag that ends the protocol, and the error ("nil" for none).
NoRet == Ret("none", FALSE, "nil")

\* An error returned without the terminal flag.
FailedOpen == Ret("nil", FALSE, "error")

Failed == Ret("nil", TRUE, "error")

Unexpected == Ret("nil", TRUE, "received unexpected message")

\* The network writes a message to the stream; a closed stream takes nothing.
Send(queue, msg, peer) == IF peer.pc = "done" THEN queue ELSE Append(queue, msg)

\* time.Until(t): negative once t has passed (the zero time.Time is 0 here and
\* the clock starts at 1, so an unset deadline has always passed).
Until(t) == t - now

\* <-time.After(d) returns at once when d is not positive.
After(d) == IF d > 0 THEN now + d ELSE now

\* The peer of a session: the other session ("pair"), or anyone; and then
\* the chain node and the wallet daemon either can fail or are sound.
AliceModes == {"alice", "alice-sound"}

BobModes == {"bob", "bob-sound"}

\* The calls to the chain node and to the wallet daemon that can fail for a
\* reason of their own.  Two sessions that swap with each other are followed
\* without such failures.
Faults(calls) == IF mode \in {"alice", "bob"} THEN {"none"} \cup calls ELSE {"none"}

\* ------------------------------------------------------------------ Alice
\* The calls HandleProtocolMessage makes for each kind of message.
AliceFaults(msg) ==
    CASE msg.type = SendKeys ->
            Faults({"GenerateViewOnlyWallet", "CloseWallet", "deploy", "Timeout0", "Timeout1"})
      [] msg.type = NotifyXMRLock ->
            Faults({"GenerateViewOnlyWallet", "Refresh", "GetBalance", "CloseWallet"})
      [] msg.type = NotifyClaimed -> Faults({"GenerateFromKeys"})
      [] OTHER -> {"none"}

AliceInit(desired) ==
    [nextExpectedMessage |-> SendKeys,
     success |-> FALSE,
     desiredAmount |-> desired,
     bobKeys |-> FALSE,
     bobClaimHash |-> "",
     bobAddress |-> "",
     contract |-> FALSE,
     t0 |-> 0,
     t1 |-> 0,
     xmrLockedCh |-> "open",
     claimedCh |-> "open",
     cancelled |-> FALSE,
     walletOpen |-> FALSE,
     wakeAt |-> 0,
     pc |-> "idle"]

\* A checkMessageType that lets NotifyRefund through as Bob's does.
AliceCheckMessageTypeLax(msg) ==
    msg.type = NotifyRefund \/ msg.type = alice.nextExpectedMessage

\* Alice's checkMessageType.
AliceCheckMessageType(msg) == msg.type = alice.nextExpectedMessage

\* s.ready() has gone through.
ReadyCalled == [ev |-> "setReady", ok |-> TRUE] \in hist

\* s.refund(): the Refund transaction, submitted now by the given task.
AliceRefund(by) ==
    /\ chain' = IF CanRefund THEN [chain EXCEPT !.escrow = "Refunded"] ELSE chain
    /\ hist' = hist \cup {[ev |-> "refund", by |-> by, at |-> Window,
                           ready |-> ReadyCalled, ok |-> CanRefund]}

\* HandleProtocolMessage, the gate: a message of another kind than the
\* expected one is refused.
AliceRejects(msg) ==
    /\ ~AliceCheckMessageType(msg)
    /\ aliceRet' = Unexpected
    /\ UNCHANGED <<alice, aliceW0, aliceW1, chain, toBob, hist>>

\* A verifyBobKeys that does not compare the derived view key with the
\* received one.
VerifyBobKeysUncompared(msg, fault) ==
    \/ msg.PrivateViewKey = "bad"
    \/ msg.PublicSpendKey = "bad"
    \/ fault = "GenerateViewOnlyWallet"

\* verifyBobKeys, after the hash was decoded and copied: the view key does
\* not parse, it is not the one the hash derives, the public key pair does not
\* parse, or the view-only wallet cannot be generated.
VerifyBobKeysErr(msg, fault) ==
    LET dvk == NewPrivateViewKeyFromHash(msg.SpendKeyHash)
        vk == msg.PrivateViewKey
    IN  \/ vk = "bad"
        \/ vk # dvk
        \/ msg.PublicSpendKey = "bad"
        \/ fault = "GenerateViewOnlyWallet"

\* handleSendKeysMessage with verifyBobKeys.
AliceHandleSendKeys(msg, fault) ==
    LET missing == \/ msg.PublicSpendKey = "" \/ msg.PrivateViewKey = ""
                   \/ msg.SpendKeyHash = ""
                   \/ msg.EthAddress = ""
        undecodable == msg.SpendKeyHash \in {"bad", "short"}
        rejected == VerifyBobKeysErr(msg, fault)
        copied == [alice EXCEPT !.bobClaimHash = msg.SpendKeyHash]
        verified == [copied EXCEPT !.bobAddress = msg.EthAddress,
                                   !.nextExpectedMessage = NotifyXMRLock,
                                   !.bobKeys = TRUE]
        deployed == [verified EXCEPT !.contract = TRUE]
        escrow == Deployed(now)
        deploy == hist \cup {[ev |-> "deploy"]}
    IN  /\ AliceCheckMessageType(msg)
        /\ msg.type = SendKeys
        /\ UNCHANGED aliceW1
        /\ IF missing \/ undecodable
           THEN /\ fault = "none"
                /\ aliceRet' = Failed
                /\ UNCHANGED <<alice, aliceW0, chain, toBob, hist>>
           ELSE IF rejected
           THEN /\ fault \in {"none", "GenerateViewOnlyWallet"}
                /\ alice' = copied
                /\ aliceRet' = Failed
                /\ UNCHANGED <<aliceW0, chain, toBob, hist>>
           ELSE IF fault = "CloseWallet"
           THEN /\ alice' = [copied EXCEPT !.walletOpen = TRUE]
                /\ aliceRet' = Failed
                /\ UNCHANGED <<aliceW0, chain, toBob, hist>>
           ELSE IF fault = "deploy"
           THEN /\ alice' = verified
                /\ aliceRet' = Failed
                /\ UNCHANGED <<aliceW0, chain, toBob, hist>>
           ELSE IF fault = "Timeout0"
           THEN /\ alice' = deployed
                /\ chain' = escrow
                /\ hist' = deploy
                /\ aliceRet' = Failed
                /\ UNCHANGED <<aliceW0, toBob>>
           ELSE IF fault = "Timeout1"
           THEN /\ alice' = [deployed EXCEPT !.t0 = escrow.t0]
                /\ chain' = escrow
                /\ hist' = deploy
                /\ aliceRet' = Failed
                /\ UNCHANGED <<aliceW0, toBob>>
           ELSE /\ alice' = [deployed EXCEPT !.t0 = escrow.t0, !.t1 = escrow.t1]
                /\ chain' = escrow
                /\ hist' = deploy
                /\ aliceW0' = "select"
                /\ aliceRet' = Ret(NotifyContractDeployed, FALSE, "nil")
                /\ toBob' = Send(toBob, [type |-> NotifyContractDeployed,
                                         Address |-> ContractAddr], bob)

\* A NotifyXMRLock case that refuses the empty address only and compares the
\* address of the message with no derived address.
AliceHandleXMRLockUncompared(msg, fault) ==
    LET address == JointAddr
        balance == GetBalance(address)
        opened == [alice EXCEPT !.walletOpen = TRUE]
    IN  /\ AliceCheckMessageType(msg)
        /\ msg.type = NotifyXMRLock
        /\ UNCHANGED <<aliceW0, aliceW1, chain, toBob>>
        /\ IF msg.Address = ""
           THEN /\ fault = "none"
                /\ aliceRet' = Failed
                /\ UNCHANGED <<alice, hist>>
           ELSE IF fault = "GenerateViewOnlyWallet"
           THEN /\ aliceRet' = Failed
                /\ UNCHANGED <<alice, hist>>
           ELSE IF fault \in {"Refresh", "GetBalance"}
           THEN /\ alice' = opened
                /\ aliceRet' = Failed
                /\ UNCHANGED hist
           ELSE IF BalanceShort(balance, alice.desiredAmount)
           THEN /\ fault = "none"
                /\ alice' = opened
                /\ aliceRet' = Failed
                /\ hist' = hist \cup {[ev |-> "audit", balance |-> balance, ok |-> FALSE]}
           ELSE IF fault = "CloseWallet"
           THEN /\ alice' = opened
                /\ aliceRet' = Failed
                /\ hist' = hist \cup {[ev |-> "audit", balance |-> balance, ok |-> TRUE]}
           ELSE /\ alice' = [alice EXCEPT !.nextExpectedMessage = NotifyClaimed,
                                          !.xmrLockedCh = "closed",
                                          !.walletOpen = FALSE,
                                          !.pc = "ready"]
                /\ aliceRet' = NoRet
                /\ hist' = hist \cup {[ev |-> "audit", balance |-> balance, ok |-> TRUE]}

\* HandleProtocolMessage, case NotifyXMRLock, up to close(s.xmrLockedCh): the
\* address check and the audit of the joint account.
AliceHandleXMRLock(msg, fault) ==
    LET address == JointAddr
        balance == GetBalance(address)
        opened == [alice EXCEPT !.walletOpen = TRUE]
    IN  /\ AliceCheckMessageType(msg)
        /\ msg.type = NotifyXMRLock
        /\ UNCHANGED <<aliceW0, aliceW1, chain, toBob>>
        /\ IF msg.Address = "" \/ msg.Address # address
           THEN /\ fault = "none"
                /\ aliceRet' = Failed
                /\ UNCHANGED <<alice, hist>>
           ELSE IF fault = "GenerateViewOnlyWallet"
           THEN /\ aliceRet' = Failed
                /\ UNCHANGED <<alice, hist>>
           ELSE IF fault \in {"Refresh", "GetBalance"}
           THEN /\ alice' = opened
                /\ aliceRet' = Failed
                /\ UNCHANGED hist
           ELSE IF BalanceShort(balance, alice.desiredAmount)
           THEN /\ fault = "none"
                /\ alice' = opened
                /\ aliceRet' = Failed
                /\ hist' = hist \cup {[ev |-> "audit", balance |-> balance, ok |-> FALSE]}
           ELSE IF fault = "CloseWallet"
           THEN /\ alice' = opened
                /\ aliceRet' = Failed
                /\ hist' = hist \cup {[ev |-> "audit", balance |-> balance, ok |-> TRUE]}
           ELSE /\ alice' = [alice EXCEPT !.nextExpectedMessage = NotifyClaimed,
                                          !.xmrLockedCh = "closed",
                                          !.walletOpen = FALSE,
                                          !.pc = "ready"]
                /\ aliceRet' = NoRet
                /\ hist' = hist \cup {[ev |-> "audit", balance |-> balance, ok |-> TRUE]}

\* HandleProtocolMessage, case NotifyXMRLock, from s.ready() on: the setReady
\* transaction, the post-t1 watchdog, the NotifyReady reply.
AliceCallReady(fault) ==
    /\ alice.pc = "ready"
    /\ fault \in Faults({"ready"})
    /\ alice' = [alice EXCEPT !.pc = "idle"]
    /\ IF fault = "ready"
       THEN /\ aliceRet' = Failed
            /\ UNCHANGED <<aliceW1, chain, toBob, hist>>
       ELSE /\ hist' = hist \cup {[ev |-> "setReady", ok |-> CanSetReady]}
            /\ IF CanSetReady
               THEN /\ chain' = [chain EXCEPT !.escrow = "Ready"]
                    /\ aliceW1' = "select"
                    /\ aliceRet' = Ret(NotifyReady, FALSE, "nil")
                    /\ toBob' = Send(toBob, [type |-> NotifyReady], bob)
               ELSE /\ aliceRet' = Failed
                    /\ UNCHANGED <<aliceW1, chain, toBob>>
    /\ UNCHANGED <<now, aliceW0, bob, bobW, bobRet, xmr, toAlice, mode, process>>

\* HandleProtocolMessage, case NotifyClaimed: handleNotifyClaimed reads Bob's
\* secret from the Claimed event of the transaction, creates the spendable
\* wallet of the joint account and latches success; then close(s.claimedCh).
AliceHandleClaimed(msg, fault) ==
    /\ AliceCheckMessageType(msg)
    /\ msg.type = NotifyClaimed
    /\ UNCHANGED <<aliceW0, aliceW1, chain, toBob>>
    /\ IF msg.TxHash # ClaimTx \/ chain.escrow # "Claimed"
       THEN /\ fault = "none"
            /\ aliceRet' = Failed
            /\ UNCHANGED <<alice, hist>>
       ELSE IF fault = "GenerateFromKeys"
       THEN /\ aliceRet' = Failed
            /\ UNCHANGED <<alice, hist>>
       ELSE IF alice.claimedCh = "closed"
       THEN \* close of a closed channel: the process panics
            /\ alice' = [alice EXCEPT !.success = TRUE, !.pc = "panic"]
            /\ aliceRet' = NoRet
            /\ hist' = hist \cup {[ev |-> "close", ch |-> "claimedCh", again |-> TRUE]}
       ELSE /\ alice' = [alice EXCEPT !.success = TRUE, !.claimedCh = "closed"]
            /\ aliceRet' = Ret("nil", TRUE, "nil")
            /\ hist' = hist \cup {[ev |-> "close", ch |-> "claimedCh", again |-> FALSE]}

\* HandleProtocolMessage, the default case of the switch.
AliceDefault(msg) ==
    /\ AliceCheckMessageType(msg)
    /\ msg.type \notin {SendKeys, NotifyXMRLock, NotifyClaimed}
    /\ aliceRet' = Ret("nil", FALSE, "unexpected message type")
    /\ UNCHANGED <<alice, aliceW0, aliceW1, chain, toBob, hist>>

\* HandleProtocolMessage of Alice for one message; fault is the call to the
\* chain node or to the wallet daemon that fails while it is handled.
AliceHandle(msg) ==
    /\ alice.pc = "idle"
    /\ UNCHANGED <<now, bob, bobW, bobRet, xmr>>
    /\ \/ AliceRejects(msg)
       \/ \E fault \in AliceFaults(msg) : AliceHandleSendKeys(msg, fault)
       \/ \E fault \in AliceFaults(msg) : AliceHandleXMRLock(msg, fault)
       \/ \E fault \in AliceFaults(msg) : AliceHandleClaimed(msg, fault)
       \/ AliceDefault(msg)

\* tryRefund: how long it waits before it submits the refund.
TryRefundWait(s) ==
    IF Until(s.t0) > 0 /\ Until(s.t1) < 0 THEN After(Until(s.t1)) ELSE now

\* A ProtocolComplete of Alice that never goes on to tryRefund.
AliceProtocolCompleteNoRefund ==
    /\ alice.pc = "idle"
    /\ alice' = [alice EXCEPT !.cancelled = TRUE, !.pc = "done"]
    /\ UNCHANGED <<now, aliceW0, aliceW1, aliceRet, bob, bobW, bobRet, chain, xmr,
                   toAlice, toBob, hist, mode, process>>

\* ProtocolComplete of Alice, up to the refund: nothing to recover after
\* success or before the keys were accepted, and then the deferred cancel
\* runs at once; otherwise tryRefund.
AliceProtocolComplete ==
    /\ alice.pc = "idle"
    /\ IF alice.success \/ alice.nextExpectedMessage = SendKeys
       THEN alice' = [alice EXCEPT !.cancelled = TRUE, !.pc = "done"]
       ELSE alice' = [alice EXCEPT !.pc = "tryRefund", !.wakeAt = TryRefundWait(alice)]
    /\ UNCHANGED <<now, aliceW0, aliceW1, aliceRet, bob, bobW, bobRet, chain, xmr,
                   toAlice, toBob, hist, mode, process>>

\* A tryRefund that puts nextExpectedMessage back to SendKeys.
AliceTryRefundResetting(fault) ==
    /\ alice.pc = "tryRefund"
    /\ now >= alice.wakeAt
    /\ fault \in Faults({"refund"})
    /\ alice' = [alice EXCEPT !.cancelled = TRUE, !.pc = "done",
                              !.nextExpectedMessage = SendKeys]
    /\ IF fault = "refund" \/ ~alice.contract
       THEN UNCHANGED <<chain, hist>>
       ELSE AliceRefund("tryRefund")
    /\ UNCHANGED <<now, aliceW0, aliceW1, aliceRet, bob, bobW, bobRet, xmr,
                   toAlice, toBob, mode, process>>

\* tryRefund submits the refund (without a contract there is nothing to
\* call); ProtocolComplete returns through the deferred s.cancel().
AliceTryRefund(fault) ==
    /\ alice.pc = "tryRefund"
    /\ now >= alice.wakeAt
    /\ fault \in Faults({"refund"})
    /\ alice' = [alice EXCEPT !.cancelled = TRUE, !.pc = "done"]
    /\ IF fault = "refund" \/ ~alice.contract
       THEN UNCHANGED <<chain, hist>>
       ELSE AliceRefund("tryRefund")
    /\ UNCHANGED <<now, aliceW0, aliceW1, aliceRet, bob, bobW, bobRet, xmr,
                   toAlice, toBob, mode, process>>

\* A pre-t0 watchdog whose select has no timer case.
AliceW0SelectUntimed ==
    /\ aliceW0 = "select"
    /\ alice.pc # "panic"
    /\ \/ alice.cancelled /\ aliceW0' = "returned"
       \/ alice.xmrLockedCh = "closed" /\ aliceW0' = "returned"
    /\ UNCHANGED <<now, alice, aliceW1, aliceRet, bob, bobW, bobRet, chain, xmr,
                   toAlice, toBob, hist, mode, process>>

\* The select of the pre-t0 watchdog: one of its ready cases is taken.
AliceW0Select ==
    /\ aliceW0 = "select"
    /\ alice.pc # "panic"
    /\ \/ alice.cancelled /\ aliceW0' = "returned"
       \/ now >= alice.t0 - timeoutBuffer /\ aliceW0' = "refund"
       \/ alice.xmrLockedCh = "closed" /\ aliceW0' = "returned"
    /\ UNCHANGED <<now, alice, aliceW1, aliceRet, bob, bobW, bobRet, chain, xmr,
                   toAlice, toBob, hist, mode, process>>

\* The select of the post-t1 watchdog without the timer case.
AliceW1SelectUntimed ==
    /\ aliceW1 = "select"
    /\ alice.pc # "panic"
    /\ \/ alice.cancelled /\ aliceW1' = "returned"
       \/ alice.claimedCh = "closed" /\ aliceW1' = "returned"
    /\ UNCHANGED <<now, alice, aliceW0, aliceRet, bob, bobW, bobRet, chain, xmr,
                   toAlice, toBob, hist, mode, process>>

\* The select of the post-t1 watchdog.
AliceW1Select ==
    /\ aliceW1 = "select"
    /\ alice.pc # "panic"
    /\ \/ alice.cancelled /\ aliceW1' = "returned"
       \/ now >= alice.t1 /\ aliceW1' = "refund"
       \/ alice.claimedCh = "closed" /\ aliceW1' = "returned"
    /\ UNCHANGED <<now, alice, aliceW0, aliceRet, bob, bobW, bobRet, chain, xmr,
                   toAlice, toBob, hist, mode, process>>

\* A timer case that sends NotifyRefund whether or not the refund went through.
AliceWatchdogRefundAnnounced(by, fault) ==
    /\ fault \in Faults({"refund"})
    /\ alice.pc # "panic"
    /\ IF fault = "refund"
       THEN UNCHANGED <<chain, hist, toBob>>
       ELSE /\ AliceRefund(by)
            /\ toBob' = Send(toBob, [type |-> NotifyRefund, TxHash |-> RefundTx], bob)
    /\ UNCHANGED <<now, alice, aliceRet, bob, bobW, bobRet, xmr, toAlice, mode, process>>

\* The timer case of a watchdog of Alice: refund, and NotifyRefund to Bob
\* when the refund went through.
AliceWatchdogRefund(by, fault) ==
    /\ fault \in Faults({"refund"})
    /\ alice.pc # "panic"
    /\ IF fault = "refund"
       THEN UNCHANGED <<chain, hist, toBob>>
       ELSE /\ AliceRefund(by)
            /\ toBob' = IF CanRefund
                        THEN Send(toBob, [type |-> NotifyRefund, TxHash |-> RefundTx], bob)
                        ELSE toBob
    /\ UNCHANGED <<now, alice, aliceRet, bob, bobW, bobRet, xmr, toAlice, mode, process>>

AliceW0Refund ==
    /\ aliceW0 = "refund"
    /\ aliceW0' = "returned"
    /\ \E fault \in Faults({"refund"}) : AliceWatchdogRefund("pre-t0", fault)
    /\ UNCHANGED aliceW1

AliceW1Refund ==
    /\ aliceW1 = "refund"
    /\ aliceW1' = "returned"
    /\ \E fault \in Faults({"refund"}) : AliceWatchdogRefund("post-t1", fault)
    /\ UNCHANGED aliceW0


\* -------------------------------------------------------------------- Bob
BobFaults(msg) ==
    CASE msg.type = SendKeys ->
            Faults({"GenerateViewOnlyWallet", "CloseWallet", "openWallet"})
      [] msg.type = NotifyContractDeployed ->
            Faults({"setContract", "lockFunds", "Timeout0", "Timeout1"})
      [] msg.type = NotifyReady -> Faults({"claim"})
      [] msg.type = NotifyRefund ->
            Faults({"WriteKeysToFile", "GenerateFromKeys", "Refresh", "GetBalance"})
      [] OTHER -> {"none"}

BobInit(provides) ==
    [nextExpectedMessage |-> SendKeys,
     success |-> FALSE,
     providesAmount |-> provides,
     alicePrivateViewKey |-> FALSE,
     alicePublicKeys |-> FALSE,
     contract |-> "",
     t0 |-> 0,
     t1 |-> 0,
     readyCh |-> "open",
     cancelled |-> FALSE,
     wakeAt |-> 0,
     pc |-> "idle"]

\* A checkMessageType without the exception for NotifyRefund.
BobCheckMessageTypeStrict(msg) == msg.type = bob.nextExpectedMessage

\* Bob's checkMessageType: NotifyRefund passes whatever is expected.
BobCheckMessageType(msg) ==
    msg.type = NotifyRefund \/ msg.type = bob.nextExpectedMessage

\* The contract instance Bob holds is the escrow Alice deployed.
BobBound == bob.contract = ContractAddr /\ chain.escrow # "none"

\* s.claimFunds(): the Claim transaction, submitted now by the given task;
\* a claim that goes through latches success.
BobClaimOk == BobBound /\ CanClaim

\* Where the clock stands in the windows of the contract Bob holds.
BobWindow == IF BobBound THEN Window ELSE "unbound"

BobClaim(by) ==
    /\ chain' = IF BobClaimOk THEN [chain EXCEPT !.escrow = "Claimed"] ELSE chain
    /\ hist' = hist \cup {[ev |-> "claim", by |-> by, at |-> BobWindow,
                           notified |-> bob.readyCh = "closed" \/ by = "NotifyReady",
                           ok |-> BobClaimOk]}

BobRejects(msg) ==
    /\ ~BobCheckMessageType(msg)
    /\ bobRet' = Unexpected
    /\ UNCHANGED <<bob, bobW, chain, xmr, toAlice, hist>>

\* Bob's handleSendKeysMessage.
BobHandleSendKeys(msg, fault) ==
    LET missing == \/ msg.PublicSpendKey = "" \/ msg.PrivateViewKey = ""
                   \/ msg.SpendKeyHash = ""
        dvk == NewPrivateViewKeyFromHash(msg.SpendKeyHash)
        vk == msg.PrivateViewKey
        expecting == [bob EXCEPT !.nextExpectedMessage = NotifyContractDeployed]
        viewed == [expecting EXCEPT !.alicePrivateViewKey = TRUE]
    IN  /\ BobCheckMessageType(msg)
        /\ msg.type = SendKeys
        /\ UNCHANGED <<bobW, chain, xmr, toAlice, hist>>
        /\ IF missing \/ dvk = "err"
           THEN /\ fault = "none"
                /\ bobRet' = Failed
                /\ UNCHANGED bob
           ELSE IF vk = "bad" \/ vk # dvk
           THEN /\ fault = "none"
                /\ bob' = expecting
                /\ bobRet' = Failed
           ELSE IF msg.PublicSpendKey = "bad"
           THEN /\ fault = "none"
                /\ bob' = viewed
                /\ bobRet' = Failed
           ELSE IF fault # "none"
           THEN /\ bob' = viewed
                /\ bobRet' = Failed
           ELSE /\ bob' = [viewed EXCEPT !.alicePublicKeys = TRUE]
                /\ bobRet' = Ret("nil", FALSE, "nil")

\* HandleProtocolMessage, case NotifyContractDeployed: bind the contract, lock
\* the X on the joint account, read the timeouts, start the t0 watchdog.
\* lockFunds derives the joint account from Alice's public keys: without them
\* it dereferences nil and the process panics.
BobHandleContractDeployed(msg, fault) ==
    LET expecting == [bob EXCEPT !.nextExpectedMessage = NotifyReady]
        bound == [expecting EXCEPT !.contract = msg.Address]
        locked == [locked |-> TRUE, addr |-> JointAddr, amount |-> bob.providesAmount]
        lock == hist \cup {[ev |-> "lock", keys |-> bob.alicePublicKeys]}
        deployed == msg.Address = ContractAddr /\ chain.escrow # "none"
    IN  /\ BobCheckMessageType(msg)
        /\ msg.type = NotifyContractDeployed
        /\ UNCHANGED chain
        /\ IF msg.Address = ""
           THEN /\ fault = "none"
                /\ bobRet' = Failed
                /\ UNCHANGED <<bob, bobW, xmr, toAlice, hist>>
           ELSE IF fault = "setContract"
           THEN /\ bob' = expecting
                /\ bobRet' = Failed
                /\ UNCHANGED <<bobW, xmr, toAlice, hist>>
           ELSE IF ~bob.alicePublicKeys
           THEN /\ fault = "none"
                /\ bob' = [bound EXCEPT !.pc = "panic"]
                /\ bobRet' = NoRet
                /\ UNCHANGED <<bobW, xmr, toAlice, hist>>
           ELSE IF fault = "lockFunds"
           THEN /\ bob' = bound
                /\ bobRet' = Failed
                /\ UNCHANGED <<bobW, xmr, toAlice, hist>>
           ELSE IF fault = "Timeout0" \/ ~deployed
           THEN /\ fault \in {"none", "Timeout0"}
                /\ bob' = bound
                /\ xmr' = locked
                /\ hist' = lock
                /\ bobRet' = Failed
                /\ UNCHANGED <<bobW, toAlice>>
           ELSE IF fault = "Timeout1"
           THEN /\ bob' = [bound EXCEPT !.t0 = chain.t0]
                /\ xmr' = locked
                /\ hist' = lock
                /\ bobRet' = Failed
                /\ UNCHANGED <<bobW, toAlice>>
           ELSE /\ bob' = [bound EXCEPT !.t0 = chain.t0, !.t1 = chain.t1]
                /\ xmr' = locked
                /\ hist' = lock
                /\ bobW' = "select"
                /\ bobRet' = Ret(NotifyXMRLock, FALSE, "nil")
                /\ toAlice' = Send(toAlice, [type |-> NotifyXMRLock,
                                             Address |-> JointAddr], alice)

\* HandleProtocolMessage, case NotifyReady: close(s.readyCh), then claim.
BobHandleReady(msg, fault) ==
    /\ BobCheckMessageType(msg)
    /\ msg.type = NotifyReady
    /\ UNCHANGED <<bobW, xmr>>
    /\ IF bob.readyCh = "closed"
       THEN \* close of a closed channel: the process panics
            /\ fault = "none"
            /\ bob' = [bob EXCEPT !.pc = "panic"]
            /\ bobRet' = NoRet
            /\ hist' = hist \cup {[ev |-> "close", ch |-> "readyCh", again |-> TRUE]}
            /\ UNCHANGED <<chain, toAlice>>
       ELSE IF fault = "claim"
       THEN /\ bob' = [bob EXCEPT !.readyCh = "closed"]
            /\ bobRet' = Failed
            /\ hist' = hist \cup {[ev |-> "close", ch |-> "readyCh", again |-> FALSE]}
            /\ UNCHANGED <<chain, toAlice>>
       ELSE /\ bob' = [bob EXCEPT !.readyCh = "closed", !.success = @ \/ BobClaimOk]
            /\ chain' = IF BobClaimOk THEN [chain EXCEPT !.escrow = "Claimed"] ELSE chain
            /\ hist' = hist \cup {[ev |-> "close", ch |-> "readyCh", again |-> FALSE],
                                  [ev |-> "claim", by |-> "NotifyReady", at |-> BobWindow,
                                   notified |-> TRUE, ok |-> BobClaimOk]}
            /\ bobRet' = IF BobClaimOk THEN Ret(NotifyClaimed, TRUE, "nil") ELSE Failed
            /\ toAlice' = IF BobClaimOk
                          THEN Send(toAlice, [type |-> NotifyClaimed, TxHash |-> ClaimTx], alice)
                          ELSE toAlice

\* A handleRefund that generates the wallet first and writes the file last.
BobHandleRefundWalletFirst(msg, fault) ==
    LET receipt == \/ msg.TxHash = RefundTx /\ chain.escrow = "Refunded"
                   \/ msg.TxHash = ClaimTx /\ chain.escrow = "Claimed"
        secret == IF msg.TxHash = RefundTx THEN "sA" ELSE "sB"
    IN  /\ BobCheckMessageType(msg)
        /\ msg.type = NotifyRefund
        /\ UNCHANGED <<bobW, chain, xmr, toAlice>>
        /\ IF ~receipt
           THEN /\ fault = "none"
                /\ bobRet' = Failed
                /\ UNCHANGED <<bob, hist>>
           ELSE IF fault = "GenerateFromKeys"
           THEN /\ bobRet' = Failed
                /\ UNCHANGED <<bob, hist>>
           ELSE IF fault \in {"Refresh", "GetBalance"}
           THEN /\ bobRet' = Failed
                /\ hist' = hist \cup {[ev |-> "wallet", secret |-> secret]}
                /\ UNCHANGED bob
           ELSE IF fault = "WriteKeysToFile"
           THEN /\ bob' = [bob EXCEPT !.success = TRUE]
                /\ bobRet' = Failed
                /\ hist' = hist \cup {[ev |-> "wallet", secret |-> secret]}
           ELSE /\ bob' = [bob EXCEPT !.success = TRUE]
                /\ bobRet' = Ret("nil", TRUE, "nil")
                /\ hist' = hist \cup {[ev |-> "file", secret |-> secret],
                                      [ev |-> "wallet", secret |-> secret]}

\* HandleProtocolMessage, case NotifyRefund: handleRefund unpacks the secret
\* from the first log of the transaction's receipt, sums it with Bob's own
\* keys, writes the key pair to the file, and createMoneroWallet generates the
\* wallet and latches success.
BobHandleRefund(msg, fault) ==
    LET receipt == \/ msg.TxHash = RefundTx /\ chain.escrow = "Refunded"
                   \/ msg.TxHash = ClaimTx /\ chain.escrow = "Claimed"
        secret == IF msg.TxHash = RefundTx THEN "sA" ELSE "sB"
    IN  /\ BobCheckMessageType(msg)
        /\ msg.type = NotifyRefund
        /\ UNCHANGED <<bobW, chain, xmr, toAlice>>
        /\ IF ~receipt
           THEN /\ fault = "none"
                /\ bobRet' = Failed
                /\ UNCHANGED <<bob, hist>>
           ELSE IF fault = "WriteKeysToFile"
           THEN /\ bobRet' = Failed
                /\ UNCHANGED <<bob, hist>>
           ELSE IF fault = "GenerateFromKeys"
           THEN /\ bobRet' = Failed
                /\ hist' = hist \cup {[ev |-> "file", secret |-> secret]}
                /\ UNCHANGED bob
           ELSE IF fault \in {"Refresh", "GetBalance"}
           THEN /\ bobRet' = Failed
                /\ hist' = hist \cup {[ev |-> "file", secret |-> secret],
                                      [ev |-> "wallet", secret |-> secret]}
                /\ UNCHANGED bob
           ELSE /\ bob' = [bob EXCEPT !.success = TRUE]
                /\ bobRet' = Ret("nil", TRUE, "nil")
                /\ hist' = hist \cup {[ev |-> "file", secret |-> secret],
                                      [ev |-> "wallet", secret |-> secret]}

\* HandleProtocolMessage, the default case of the switch.
BobDefault(msg) ==
    /\ BobCheckMessageType(msg)
    /\ msg.type \notin {SendKeys, NotifyContractDeployed, NotifyReady, NotifyRefund}
    /\ bobRet' = Ret("nil", TRUE, "unexpected message type")
    /\ UNCHANGED <<bob, bobW, chain, xmr, toAlice, hist>>

\* HandleProtocolMessage of Bob for one message.
BobHandle(msg) ==
    /\ bob.pc = "idle"
    /\ UNCHANGED <<now, alice, aliceW0, aliceW1, aliceRet>>
    /\ \/ BobRejects(msg)
       \/ \E fault \in BobFaults(msg) : BobHandleSendKeys(msg, fault)
       \/ \E fault \in BobFaults(msg) : BobHandleContractDeployed(msg, fault)
       \/ \E fault \in BobFaults(msg) : BobHandleReady(msg, fault)
       \/ \E fault \in BobFaults(msg) : BobHandleRefund(msg, fault)
       \/ BobDefault(msg)

\* tryClaim: how long it waits before it submits the claim.
TryClaimWait(s) == IF Until(s.t0) < 0 THEN After(Until(s.t0)) ELSE now

\* A ProtocolComplete of Bob that does not look at success.
BobProtocolCompleteUnlatched ==
    /\ bob.pc = "idle"
    /\ IF bob.nextExpectedMessage \in {SendKeys, NotifyContractDeployed}
       THEN bob' = [bob EXCEPT !.cancelled = TRUE, !.pc = "done"]
       ELSE bob' = [bob EXCEPT !.pc = "tryClaim", !.wakeAt = TryClaimWait(bob)]
    /\ UNCHANGED <<now, alice, aliceW0, aliceW1, aliceRet, bobW, bobRet, chain, xmr,
                   toAlice, toBob, hist, mode, process>>

\* ProtocolComplete of Bob, up to the claim.
BobProtocolComplete ==
    /\ bob.pc = "idle"
    /\ IF bob.success \/ bob.nextExpectedMessage \in {SendKeys, NotifyContractDeployed}
       THEN bob' = [bob EXCEPT !.cancelled = TRUE, !.pc = "done"]
       ELSE bob' = [bob EXCEPT !.pc = "tryClaim", !.wakeAt = TryClaimWait(bob)]
    /\ UNCHANGED <<now, alice, aliceW0, aliceW1, aliceRet, bobW, bobRet, chain, xmr,
                   toAlice, toBob, hist, mode, process>>

\* tryClaim submits the claim; ProtocolComplete returns through the deferred
\* s.cancel().
BobTryClaim(fault) ==
    /\ bob.pc = "tryClaim"
    /\ now >= bob.wakeAt
    /\ fault \in Faults({"claim"})
    /\ IF fault = "claim" \/ bob.contract = ""
       THEN /\ bob' = [bob EXCEPT !.cancelled = TRUE, !.pc = "done"]
            /\ UNCHANGED <<chain, hist>>
       ELSE /\ bob' = [bob EXCEPT !.cancelled = TRUE, !.pc = "done",
                                  !.success = @ \/ BobClaimOk]
            /\ BobClaim("tryClaim")
    /\ UNCHANGED <<now, alice, aliceW0, aliceW1, aliceRet, bobW, bobRet, xmr,
                   toAlice, toBob, mode, process>>

\* The select of Bob's t0 watchdog.
\* A select of Bob's watchdog without the timer case.
BobWSelectUntimed ==
    /\ bobW = "select"
    /\ bob.pc # "panic"
    /\ \/ bob.cancelled /\ bobW' = "returned"
       \/ bob.readyCh = "closed" /\ bobW' = "returned"
    /\ UNCHANGED <<now, alice, aliceW0, aliceW1, aliceRet, bob, bobRet, chain, xmr,
                   toAlice, toBob, hist, mode, process>>

\* A select of Bob's watchdog without the case of the cancelled context.
BobWSelectUncancelled ==
    /\ bobW = "select"
    /\ bob.pc # "panic"
    /\ \/ now >= bob.t0 /\ bobW' = "claim"
       \/ bob.readyCh = "closed" /\ bobW' = "returned"
    /\ UNCHANGED <<now, alice, aliceW0, aliceW1, aliceRet, bob, bobRet, chain, xmr,
                   toAlice, toBob, hist, mode, process>>

BobWSelect ==
    /\ bobW = "select"
    /\ bob.pc # "panic"
    /\ \/ bob.cancelled /\ bobW' = "returned"
       \/ now >= bob.t0 /\ bobW' = "claim"
       \/ bob.readyCh = "closed" /\ bobW' = "returned"
    /\ UNCHANGED <<now, alice, aliceW0, aliceW1, aliceRet, bob, bobRet, chain, xmr,
                   toAlice, toBob, hist, mode, process>>

\* The timer case of Bob's watchdog: claim, and NotifyClaimed to Alice when
\* the claim went through.
BobWClaim ==
    /\ bobW = "claim"
    /\ bob.pc # "panic"
    /\ bobW' = "returned"
    /\ \E fault \in Faults({"claim"}) :
            IF fault = "claim"
            THEN UNCHANGED <<bob, chain, hist, toAlice>>
            ELSE /\ BobClaim("watchdog")
                 /\ bob' = [bob EXCEPT !.success = @ \/ BobClaimOk]
                 /\ toAlice' = IF BobClaimOk
                               THEN Send(toAlice, [type |-> NotifyClaimed, TxHash |-> ClaimTx], alice)
                               ELSE toAlice
    /\ UNCHANGED <<now, alice, aliceW0, aliceW1, aliceRet, bobRet, xmr, toBob, mode, process>>


\* ------------------------------------------------------------ the network
\* The messages a peer can put on the stream besides those the other session
\* sends: a SendKeys that differs from the true one in one field, and every
\* other kind of message with each value of its field.
SendKeysLike(true) ==
    {m \in [type : {SendKeys},
            PublicSpendKey : {"", "bad", true.PublicSpendKey},
            PrivateViewKey : {"", "bad", true.PrivateViewKey},
            SpendKeyHash : {"", "bad", "short", "HA", "HB"},
            EthAddress : {"", "0xB"}] :
        Cardinality({f \in DOMAIN m : m[f] # true[f]}) <= 1}

Notifications ==
    [type : {NotifyContractDeployed}, Address : {"", ContractAddr, "0xBad"}]
    \cup [type : {NotifyXMRLock}, Address : {"", JointAddr, "4XX"}]
    \cup [type : {NotifyReady}]
    \cup [type : {NotifyClaimed}, TxHash : {ClaimTx, "txBogus"}]
    \cup [type : {NotifyRefund}, TxHash : {RefundTx, ClaimTx, "txBogus"}]

ToAlice == SendKeysLike(BobSendKeysMessage) \cup Notifications

ToBob == SendKeysLike(AliceSendKeysMessage) \cup Notifications

\* Alice's session reads the next message of the stream and handles it.
AliceReceive ==
    /\ toAlice # <<>>
    /\ AliceHandle(Head(toAlice))
    /\ toAlice' = Tail(toAlice)
    /\ UNCHANGED <<mode, process>>

\* Alice's session handles a message of a peer that follows no protocol.
AliceInject ==
    /\ mode \in AliceModes
    /\ \E msg \in ToAlice : AliceHandle(msg)
    /\ UNCHANGED <<toAlice, mode, process>>

BobReceive ==
    /\ toBob # <<>>
    /\ BobHandle(Head(toBob))
    /\ toBob' = Tail(toBob)
    /\ UNCHANGED <<mode, process>>

BobInject ==
    /\ mode \in BobModes
    /\ \E msg \in ToBob : BobHandle(msg)
    /\ UNCHANGED <<toBob, mode, process>>

\* A message is lost on its way.
Lose ==
    /\ \/ toAlice # <<>> /\ toAlice' = Tail(toAlice) /\ UNCHANGED toBob
       \/ toBob # <<>> /\ toBob' = Tail(toBob) /\ UNCHANGED toAlice
    /\ hist' = hist \cup {[ev |-> "lost"]}
    /\ UNCHANGED <<now, alice, aliceW0, aliceW1, aliceRet, bob, bobW, bobRet,
                   chain, xmr, mode, process>>

\* What a peer that follows no protocol can do on the two chains: in Bob's
\* place, pay any amount to the joint account and claim the escrow with his
\* secret; in Alice's place, deploy the escrow, set it ready, and refund it.
PeerLock ==
    /\ mode \in AliceModes
    /\ ~xmr.locked
    /\ \E amount \in ProvidedAmounts :
            xmr' = [locked |-> TRUE, addr |-> JointAddr, amount |-> amount]
    /\ UNCHANGED <<now, alice, aliceW0, aliceW1, aliceRet, bob, bobW, bobRet,
                   chain, toAlice, toBob, hist, mode, process>>

PeerClaim ==
    /\ mode \in AliceModes
    /\ CanClaim
    /\ chain' = [chain EXCEPT !.escrow = "Claimed"]
    /\ UNCHANGED <<now, alice, aliceW0, aliceW1, aliceRet, bob, bobW, bobRet,
                   xmr, toAlice, toBob, hist, mode, process>>

PeerEscrow ==
    /\ mode \in BobModes
    /\ \/ chain.escrow = "none" /\ chain' = Deployed(now)
       \/ chain.escrow = "Pending" /\ chain' = [chain EXCEPT !.escrow = "Ready"]
       \/ CanRefund /\ chain' = [chain EXCEPT !.escrow = "Refunded"]
    /\ UNCHANGED <<now, alice, aliceW0, aliceW1, aliceRet, bob, bobW, bobRet,
                   xmr, toAlice, toBob, hist, mode, process>>

\* A goroutine has a step it takes at once: a select with a ready case, the
\* chain call after a timer went off, the rest of a handler, the call after
\* the wait of tryRefund or tryClaim.  A process that panicked takes none.
AliceBusy ==
    /\ alice.pc # "panic"
    /\ \/ alice.pc = "ready"
       \/ alice.pc = "tryRefund" /\ now >= alice.wakeAt
       \/ aliceW0 = "refund"
       \/ aliceW1 = "refund"
       \/ /\ aliceW0 = "select"
          /\ \/ alice.cancelled
             \/ now >= alice.t0 - timeoutBuffer
             \/ alice.xmrLockedCh = "closed"
       \/ /\ aliceW1 = "select"
          /\ alice.cancelled \/ now >= alice.t1 \/ alice.claimedCh = "closed"

BobBusy ==
    /\ bob.pc # "panic"
    /\ \/ bob.pc = "tryClaim" /\ now >= bob.wakeAt
       \/ bobW = "claim"
       \/ /\ bobW = "select"
          /\ bob.cancelled \/ now >= bob.t0 \/ bob.readyCh = "closed"

\* Time passes, up to the next deadline of the escrow.  The sessions read the
\* clock only to compare it with t0 - timeoutBuffer, t0 and t1, so the clock
\* is left standing until the escrow exists and then moves from one of these
\* instants to the next.  The steps the goroutines take at once take no time:
\* a transaction is submitted at the instant its goroutine decided on it.
Deadlines == {chain.t0 - timeoutBuffer, chain.t0, chain.t1}

Tick ==
    /\ chain.escrow # "none"
    /\ ~AliceBusy
    /\ ~BobBusy
    /\ \E t \in Deadlines :
        /\ t > now
        /\ t <= MaxTime
        /\ \A u \in Deadlines : u > now => t <= u
        /\ now' = t
    /\ UNCHANGED <<alice, aliceW0, aliceW1, aliceRet, bob, bobW, bobRet, chain, xmr,
                   toAlice, toBob, hist, mode, process>>

\* ------------------------------------------------------------ newSwapState
\* The goroutines that can call newSwapState at the same time, and the
\* number of sessions that are created.
MaxCallers == 3

MaxSessions == 4

Callers == 1 .. MaxCallers

NoCall == [pc |-> "idle", id |-> 0, loaded |-> 0]

\* newSwapState, the composite literal: id is read from nextID, with no lock.
NewSwapStateLiteral(c) ==
    /\ creating[c].pc = "idle"
    /\ Len(sessions) + Cardinality({d \in Callers : creating[d].pc # "idle"}) < MaxSessions
    /\ creating' = [creating EXCEPT ![c] = [pc |-> "built", id |-> nextID, loaded |-> 0]]
    /\ UNCHANGED <<nextID, sessions>>

\* newSwapState, nextID++: the value of nextID is read ...
NewSwapStateLoad(c) ==
    /\ creating[c].pc = "built"
    /\ creating' = [creating EXCEPT ![c].pc = "loaded", ![c].loaded = nextID]
    /\ UNCHANGED <<nextID, sessions>>

\* ... and the value read plus one is written; the session is returned.
\* (nextID is a uint64; MaxSessions is far from where it wraps around.)
NewSwapStateStore(c) ==
    /\ creating[c].pc = "loaded"
    /\ nextID' = creating[c].loaded + 1
    /\ sessions' = Append(sessions, creating[c].id)
    /\ creating' = [creating EXCEPT ![c] = NoCall]

\* A step of one call of newSwapState.
NewSwapState(c) ==
    /\ \/ NewSwapStateLiteral(c)
       \/ NewSwapStateLoad(c)
       \/ NewSwapStateStore(c)
    /\ UNCHANGED <<now, alice, aliceW0, aliceW1, aliceRet, bob, bobW, bobRet,
                   chain, xmr, toAlice, toBob, hist, mode>>

\* ---------------------------------------------------------- specification
\* The session that is not there takes no step; what is sent to it stays on
\* the stream.
Absent(s) == [s EXCEPT !.pc = "absent", !.cancelled = TRUE]

\* Both sessions are created and both SendKeys messages are on the stream
\* (mode "pair"), or one session is created and faces an arbitrary peer.
Init ==
    /\ now = 1
    /\ mode \in {"pair"} \cup AliceModes \cup BobModes
    /\ IF mode \in BobModes
       THEN alice = Absent(AliceInit(0))
       ELSE \E desired \in DesiredAmounts : alice = AliceInit(desired)
    /\ IF mode \in AliceModes
       THEN bob = Absent(BobInit(0))
       ELSE \E provides \in ProvidedAmounts : bob = BobInit(provides)
    /\ \E d \in TimeoutDurations : chain = NoEscrow(d)
    /\ aliceW0 = "none"
    /\ aliceW1 = "none"
    /\ bobW = "none"
    /\ aliceRet = NoRet
    /\ bobRet = NoRet
    /\ xmr = [locked |-> FALSE, addr |-> "", amount |-> 0]
    /\ toAlice = IF mode = "pair" THEN <<BobSendKeysMessage>> ELSE <<>>
    /\ toBob = IF mode = "pair" THEN <<AliceSendKeysMessage>> ELSE <<>>
    /\ hist = {}
    /\ nextID = 0
    /\ creating = [c \in Callers |-> NoCall]
    /\ sessions = <<>>

OpenInit == Init /\ mode \in {"alice", "bob"}

SoundInit == Init /\ mode \in {"alice-sound", "bob-sound"}

PairInit == Init /\ mode = "pair"

\* A session and a peer that follows no protocol.
Next ==
    \/ AliceInject
    \/ \E fault \in {"none", "ready"} : AliceCallReady(fault)
    \/ AliceProtocolComplete
    \/ \E fault \in {"none", "refund"} : AliceTryRefund(fault)
    \/ AliceW0Select
    \/ AliceW0Refund
    \/ AliceW1Select
    \/ AliceW1Refund
    \/ BobInject
    \/ BobProtocolComplete
    \/ \E fault \in {"none", "claim"} : BobTryClaim(fault)
    \/ BobWSelect
    \/ BobWClaim
    \/ PeerLock
    \/ PeerClaim
    \/ PeerEscrow
    \/ Tick

Spec == OpenInit /\ [][Next]_vars

\* Alice's session and Bob's session, swapping with each other.
PairNext ==
    \/ AliceReceive
    \/ AliceCallReady("none")
    \/ AliceProtocolComplete
    \/ AliceTryRefund("none")
    \/ AliceW0Select
    \/ AliceW0Refund
    \/ AliceW1Select
    \/ AliceW1Refund
    \/ BobReceive
    \/ BobProtocolComplete
    \/ BobTryClaim("none")
    \/ BobWSelect
    \/ BobWClaim
    \/ Lose
    \/ Tick

PairSpec == PairInit /\ [][PairNext]_vars

\* Fair scheduling: a goroutine that can take a step takes it, and time
\* passes.  The network owes nothing: a message may stay on the stream and a
\* stream may stay open for ever.
Fairness ==
    /\ WF_vars(Tick)
    /\ WF_vars(AliceCallReady("none"))
    /\ WF_vars(AliceTryRefund("none"))
    /\ WF_vars(AliceW0Select)
    /\ WF_vars(AliceW0Refund)
    /\ WF_vars(AliceW1Select)
    /\ WF_vars(AliceW1Refund)
    /\ WF_vars(BobTryClaim("none"))
    /\ WF_vars(BobWSelect)
    /\ WF_vars(BobWClaim)

FairPairSpec == PairSpec /\ Fairness

\* The process creates sessions, from several goroutines.
IdNext == \E c \in Callers : NewSwapState(c)

IdSpec == PairInit /\ [][IdNext]_vars

\* A session and a peer that follows no protocol, with a sound chain node and
\* wallet daemon, under fair scheduling.
FairSpec == SoundInit /\ [][Next]_vars /\ Fairness

\* ------------------------------------------------------------- properties
\* Both sessions have returned from ProtocolComplete and none of their
\* goroutines is still running: the run has ended.
Terminated ==
    /\ alice.pc = "done"
    /\ bob.pc = "done"
    /\ aliceW0 \in {"none", "returned"}
    /\ aliceW1 \in {"none", "returned"}
    /\ bobW \in {"none", "returned"}

\* Outcome (a): Bob's claim went through and Alice holds the spendable wallet
\* of the joint account.
SwapOutcome == chain.escrow = "Claimed" /\ alice.success

\* Outcome (b): Alice's refund went through, or she never escrowed, and Bob
\* never locked his X or has the wallet made with Alice's secret.
RefundOutcome ==
    /\ chain.escrow \in {"none", "Refunded"}
    /\ ~xmr.locked \/ [ev |-> "wallet", secret |-> "sA"] \in hist

\* C1: atomicity.  When a run of an Alice session paired with a Bob session
\* has ended, exactly one of the two outcomes holds: Bob claimed the escrow and
\* Alice holds the joint wallet, or Alice refunded (or nothing was escrowed)
\* and Bob holds or recovered his X.
C1_Atomicity == Terminated => (SwapOutcome # RefundOutcome)

\* C2: window respect (Alice).  No refund is submitted, by a watchdog or by
\* tryRefund, at a time in [t0, t1) after setReady has been called.
C2_AliceWindowRespect ==
    \A e \in hist : e.ev = "refund" => ~(e.ready /\ e.at = "mid")

\* C3: window respect (Bob).  No claim is submitted, by the NotifyReady
\* handler, the watchdog or tryClaim, before t0 unless NotifyReady was received.
C3_BobWindowRespect ==
    \A e \in hist : e.ev = "claim" => (e.at # "pre" \/ e.notified)

\* C4: audit soundness.  Alice has called setReady only if the audit of the
\* same NotifyXMRLock handling passed on a reported balance that is at least
\* desiredAmount.
C4_AuditSoundness ==
    \A e \in hist : e.ev = "setReady" =>
        \E a \in hist : /\ a.ev = "audit"
                        /\ a.ok
                        /\ a.balance.funded
                        /\ a.balance.Balance >= alice.desiredAmount

\* The SendKeys messages either session can be handed.
KeysMessages ==
    SendKeysLike(BobSendKeysMessage) \cup SendKeysLike(AliceSendKeysMessage)

\* The view key the SpendKeyHash derives is not the PrivateViewKey received.
CommitmentMismatch(msg) ==
    NewPrivateViewKeyFromHash(msg.SpendKeyHash) # msg.PrivateViewKey

\* C5: commitment soundness.  On both sides, handling a SendKeys message
\* whose derived view key differs from the received one leaves the session
\* state as it was before the message: nextExpectedMessage stays SendKeys and
\* no key material of the peer is stored.
C5_CommitmentSoundness ==
    [][\A msg \in KeysMessages : CommitmentMismatch(msg) =>
          /\ AliceHandle(msg) => alice' = alice
          /\ BobHandle(msg) => bob' = bob]_vars

\* A SendKeys message that fails one of Alice's checks: a field is missing,
\* the commitment does not match, a key does not parse, or the view-only
\* wallet cannot be generated.
FailsAliceChecks(msg, fault) ==
    \/ msg.PublicSpendKey = ""
    \/ msg.PrivateViewKey = ""
    \/ msg.SpendKeyHash = ""
    \/ msg.EthAddress = ""
    \/ CommitmentMismatch(msg)
    \/ msg.PublicSpendKey = "bad"
    \/ fault = "GenerateViewOnlyWallet"

\* No call has gone to the chain from Alice's session.
NoChainAction ==
    /\ ~alice.contract
    /\ \A e \in hist : e.ev \notin {"deploy", "setReady", "refund"}

\* C6: Alice performs no on-chain action for a peer that fails key
\* verification.  Handling a SendKeys message that fails a check deploys
\* nothing and leaves nextExpectedMessage at SendKeys; as long as
\* nextExpectedMessage is SendKeys nothing was deployed, and ProtocolComplete
\* then returns without tryRefund.
C6_NoChainActionOnBadKeys ==
    /\ [](alice.nextExpectedMessage = SendKeys =>
            NoChainAction /\ alice.pc # "tryRefund")
    /\ [][/\ (alice.pc = "idle" /\ alice.nextExpectedMessage = SendKeys) =>
             \A msg \in SendKeysLike(BobSendKeysMessage) :
             \A fault \in {"none", "GenerateViewOnlyWallet"} :
                (FailsAliceChecks(msg, fault) /\ AliceHandleSendKeys(msg, fault))
                => /\ chain' = chain
                   /\ hist' = hist
                   /\ ~alice'.contract
                   /\ alice'.nextExpectedMessage = SendKeys
                   /\ aliceRet'.done /\ aliceRet'.err # "nil"
          /\ (alice.nextExpectedMessage = SendKeys /\ AliceProtocolComplete)
                => alice'.pc = "done" /\ chain' = chain /\ hist' = hist]_vars

\* A message that failed a check after the hash was decoded has been handled,
\* and ProtocolComplete has returned after it.
C6_Witness ==
    /\ alice.pc = "done"
    /\ alice.nextExpectedMessage = SendKeys
    /\ alice.bobClaimHash # ""
    /\ aliceRet = Failed
    /\ NoChainAction

\* C7: Bob locks X only in a session in which Alice's SendKeys message passed
\* every verification step (which is when alicePublicKeys are stored); without
\* that no NotifyContractDeployed is accepted, no contract is bound and no X
\* is locked.
C7_LockOnlyAfterVerifiedKeys ==
    (\/ bob.nextExpectedMessage = NotifyReady
     \/ bob.contract # ""
     \/ \E e \in hist : e.ev = "lock")
    => bob.alicePublicKeys

\* C8: at-most-once channels.  No execution reaches a second close of
\* xmrLockedCh, claimedCh or readyCh.
C8_ChannelsClosedOnce ==
    \A e \in hist : e.ev = "close" => ~e.again

\* HandleProtocolMessage returned an error with the terminal flag, and the
\* session, the chains, the history of calls and the stream are as before.
AliceRefused ==
    /\ aliceRet'.done
    /\ aliceRet'.err # "nil"
    /\ UNCHANGED <<alice, aliceW0, aliceW1, chain, xmr, hist, toBob>>

BobRefused ==
    /\ bobRet'.done
    /\ bobRet'.err # "nil"
    /\ UNCHANGED <<bob, bobW, chain, xmr, hist, toAlice>>

\* C9: message gate strictness.  For a message of another kind than
\* nextExpectedMessage (on Bob's side: other than NotifyRefund, too),
\* HandleProtocolMessage returns an error with the terminal flag true, makes
\* no chain or wallet call, closes no channel and changes no session field.
C9_GateStrictness ==
    [][/\ \/ AliceRefused
          \/ alice.pc # "idle"
          \/ \A msg \in ToAlice \cup ToBob :
                ~(msg.type # alice.nextExpectedMessage /\ AliceHandle(msg))
       /\ \/ BobRefused
          \/ bob.pc # "idle"
          \/ \A msg \in ToAlice \cup ToBob :
                ~(/\ msg.type # bob.nextExpectedMessage
                  /\ msg.type # NotifyRefund
                  /\ BobHandle(msg))]_vars

\* Bob's gate has refused a message after he locked his X.
C9_Witness ==
    /\ bobRet = Unexpected
    /\ bob.nextExpectedMessage = NotifyReady
    /\ xmr.locked

\* The NotifyRefund messages Bob can be handed.
RefundMessages == {msg \in Notifications : msg.type = NotifyRefund}

\* C10: Bob's gate accepts NotifyRefund in every state.  Whatever
\* nextExpectedMessage is, a NotifyRefund passes checkMessageType, is handled
\* by the NotifyRefund case, and the handler returns the terminal flag true.
C10_RefundAlwaysAccepted ==
    /\ [](\A msg \in RefundMessages : BobCheckMessageType(msg))
    /\ [][\A msg \in RefundMessages :
            BobHandle(msg) =>
                /\ \E fault \in BobFaults(msg) : BobHandleRefund(msg, fault)
                /\ bobRet'.done]_vars

\* A NotifyRefund was handled to the end while Bob still expected SendKeys.
C10_Witness ==
    /\ bob.nextExpectedMessage = SendKeys
    /\ bob.success
    /\ bobRet = Ret("nil", TRUE, "nil")
    /\ [ev |-> "wallet", secret |-> "sA"] \in hist

\* The kinds of message the protocol delivers in sequence.
SequenceKinds ==
    {SendKeys, NotifyContractDeployed, NotifyXMRLock, NotifyReady, NotifyClaimed}

\* C11: duplicate replay.  Once a message of the sequence has been accepted
\* (HandleProtocolMessage returned no error), a second copy of it is refused
\* by the gate, which leaves the session as it is.
C11_DuplicateRefused ==
    [][/\ \/ alice.pc # "idle"
          \/ aliceRet'.err # "nil"
          \/ \A msg \in ToAlice :
                (msg.type \in SequenceKinds /\ AliceHandle(msg))
                => ~AliceCheckMessageType(msg)'
       /\ \/ bob.pc # "idle"
          \/ bobRet'.err # "nil"
          \/ \A msg \in ToBob :
                (msg.type \in SequenceKinds /\ BobHandle(msg))
                => ~BobCheckMessageType(msg)']_vars

\* The run so far is the happy path with timeouts of 60 s and 120 s: no
\* message was lost, the amount Bob provides covers the amount Alice wants,
\* and no stream was closed before its session succeeded.
HappyPath ==
    /\ chain.duration = 1
    /\ [ev |-> "lost"] \notin hist
    /\ bob.providesAmount >= alice.desiredAmount
    /\ alice.pc \in {"tryRefund", "done"} => alice.success
    /\ bob.pc \in {"tryClaim", "done"} => bob.success

\* C12: happy path.  With t0 = deploy + 60 s and t1 = deploy + 120 s, the
\* messages delivered in order and every call succeeding, Alice submits no
\* refund, Bob submits his claim only after NotifyReady, and when both
\* sessions have ended both have latched success.
C12_HappyPath ==
    HappyPath =>
        /\ \A e \in hist : e.ev # "refund"
        /\ \A e \in hist : e.ev = "claim" => e.notified
        /\ Terminated => (alice.success /\ bob.success)

\* A NotifyXMRLock has been delivered to Alice: the joint account was audited.
XMRLockDelivered == \E e \in hist : e.ev = "audit"

\* Alice's refund went through before t0.
RefundedBeforeT0 ==
    /\ chain.escrow = "Refunded"
    /\ \E e \in hist : e.ev = "refund" /\ e.at = "pre" /\ e.ok

\* C13: Bob never locks.  Once Alice has deployed the escrow and started the
\* pre-t0 watchdog, then under fair scheduling either a NotifyXMRLock is
\* delivered or Alice's refund, from the watchdog or from ProtocolComplete,
\* goes through before t0 and the escrow is Refunded.
C13_RefundIfNeverLocked ==
    (aliceW0 = "select") ~> (XMRLockDelivered \/ RefundedBeforeT0)

\* The pre-t0 watchdog has refunded an escrow no NotifyXMRLock came for.
C13_Witness ==
    /\ ~XMRLockDelivered
    /\ chain.escrow = "Refunded"
    /\ [ev |-> "refund", by |-> "pre-t0", at |-> "pre", ready |-> FALSE,
        ok |-> TRUE] \in hist

\* The refund of the post-t1 watchdog has gone through after t1 and
\* NotifyRefund is on the stream to Bob.
RefundedAfterT1 ==
    /\ [ev |-> "refund", by |-> "post-t1", at |-> "post", ready |-> TRUE,
        ok |-> TRUE] \in hist
    /\ \E i \in DOMAIN toBob : toBob[i] = [type |-> NotifyRefund, TxHash |-> RefundTx]

\* The stream to Alice was closed, or NotifyClaimed was delivered to her.
AliceReleased ==
    \/ alice.cancelled
    \/ alice.claimedCh = "closed"
    \/ alice.pc = "panic"

\* C14 as stated: Alice has called setReady (which is when the post-t1
\* watchdog runs), no NotifyClaimed is delivered and the stream stays open;
\* then the refund the watchdog submits goes through and NotifyRefund is sent.
C14_RefundWithoutNotifyClaimed ==
    [][(AliceW1Refund /\ ~AliceReleased)
        => (chain'.escrow = "Refunded" /\ RefundedAfterT1')]_vars

\* C14, with the premise that Bob's claim never appears on the escrow: once
\* the post-t1 watchdog runs, either the stream is closed, NotifyClaimed is
\* delivered or a claim appears, or the watchdog's refund goes through after
\* t1 and NotifyRefund is sent; and Bob, handling NotifyRefund for an escrow
\* that was refunded, makes the wallet from Alice's secret and latches success.
C14_RefundIfNeverClaimed ==
    /\ (aliceW1 = "select")
          ~> (RefundedAfterT1 \/ AliceReleased \/ chain.escrow = "Claimed")
    /\ [][(bob.pc = "idle" /\ chain.escrow = "Refunded")
            => \A msg \in {[type |-> NotifyRefund, TxHash |-> RefundTx]} :
                  (BobCheckMessageType(msg) /\ BobHandle(msg))
                  => /\ bob'.success
                     /\ bobRet' = Ret("nil", TRUE, "nil")
                     /\ [ev |-> "wallet", secret |-> "sA"] \in hist']_vars

\* The post-t1 watchdog has refunded an escrow that was set ready and never
\* claimed, with the stream open.
C14_Witness ==
    /\ RefundedAfterT1
    /\ chain.escrow = "Refunded"
    /\ ~AliceReleased
    /\ \A e \in hist : e.ev # "claim"

\* The setReady calls made so far.
ReadyEvents == {e \in hist : e.ev = "setReady"}

AliceClosedAfterReady ==
    /\ alice.pc = "done"
    /\ [ev |-> "setReady", ok |-> TRUE] \in hist
    /\ alice.claimedCh = "open"

\* C16: when Alice's stream closed after her setReady and before NotifyClaimed
\* was handled, and both sessions have ended, the escrow was either refunded
\* or claimed, and the party whose call did not succeed has made the joint
\* wallet from the secret the other's call revealed.
C16_CloseAfterReady ==
    (AliceClosedAfterReady /\ Terminated) =>
        /\ chain.escrow \in {"Refunded", "Claimed"}
        /\ chain.escrow = "Claimed" => alice.success
        /\ chain.escrow = "Refunded" => [ev |-> "wallet", secret |-> "sA"] \in hist

\* A watchdog that was never spawned or has returned.
NotRunning == {"none", "returned"}

\* C17: after ProtocolComplete has returned for a session, each of its
\* watchdogs (Alice's pre-t0 and post-t1 watchdogs, Bob's t0 watchdog)
\* eventually has returned, and none is spawned or resumed afterwards.
C17_NoLeakedTasks ==
    /\ (alice.pc = "done") ~> (aliceW0 \in NotRunning /\ aliceW1 \in NotRunning)
    /\ (bob.pc = "done") ~> (bobW \in NotRunning)
    /\ [][/\ (alice.pc = "done" /\ aliceW0 \in NotRunning) => aliceW0' = aliceW0
          /\ (alice.pc = "done" /\ aliceW1 \in NotRunning) => aliceW1' = aliceW1
          /\ (bob.pc = "done" /\ bobW \in NotRunning) => bobW' = bobW]_vars

\* Both sessions have ended, and the post-t1 watchdog of Alice and the
\* watchdog of Bob have returned from their select through the cancelled
\* context: with the channel they wait for still open and nothing submitted.
C17_Witness ==
    /\ Terminated
    /\ aliceW0 = "returned"
    /\ aliceW1 = "returned" /\ alice.claimedCh = "open"
    /\ bobW = "returned" /\ bob.readyCh = "open"
    /\ \A e \in hist : e.ev \in {"refund", "claim"} => e.by \in {"tryRefund", "tryClaim"}

\* What the watchdogs have submitted and sent so far.
WatchdogEvents == {e \in hist : e.ev \in {"refund", "claim"} /\ e.by \in {"pre-t0", "post-t1", "watchdog"}}

\* C18: once ProtocolComplete has cancelled the context of a session, no
\* watchdog of that session submits a refund or a claim or sends NotifyRefund
\* or NotifyClaimed; a select that is evaluated with the context cancelled
\* does not take its timer case, also when the deadline has passed.
C18_NoTimerSurvivesTeardown ==
    [][/\ alice.cancelled =>
            /\ aliceW0 = "select" => aliceW0' # "refund"
            /\ aliceW1 = "select" => aliceW1' # "refund"
            /\ \A e \in WatchdogEvents' \ WatchdogEvents : e.ev # "refund"
            /\ ~(aliceW0' # aliceW0 /\ toBob' # toBob)
            /\ ~(aliceW1' # aliceW1 /\ toBob' # toBob)
       /\ bob.cancelled =>
            /\ bobW = "select" => bobW' # "claim"
            /\ \A e \in WatchdogEvents' \ WatchdogEvents : e.ev # "claim"
            /\ ~(bobW' # bobW /\ toAlice' # toAlice)]_vars

\* C19: while HandleProtocolMessage or ProtocolComplete of a session is
\* between two of its steps (Alice between her balance check and her setReady
\* call, Alice in tryRefund, Bob in tryClaim), no watchdog of that session
\* submits a refund or a claim.
C19_HandlerWatchdogSerialised ==
    [][/\ alice.pc \in {"ready", "tryRefund"} =>
            \A e \in WatchdogEvents' \ WatchdogEvents : e.ev # "refund"
       /\ bob.pc = "tryClaim" =>
            \A e \in WatchdogEvents' \ WatchdogEvents : e.ev # "claim"]_vars

\* C20: every session has an id greater than the id of every session created
\* before it, so no two sessions share an id, also when newSwapState is called
\* concurrently; and the id of a session does not change.
C20_SessionIds ==
    /\ [](\A i, j \in DOMAIN sessions : i < j => sessions[i] < sessions[j])
    /\ [][\A i \in DOMAIN sessions : sessions'[i] = sessions[i]]_vars

\* C21: whichever way Alice's handling of NotifyXMRLock ends, the view-only
\* wallet it generated for the audit is closed when the handler returns.
C21_AuditWalletReleased ==
    [][(alice.pc = "idle" /\ alice.nextExpectedMessage = NotifyXMRLock
            /\ ~alice.walletOpen) =>
         \A msg \in {m \in ToAlice : m.type = NotifyXMRLock} :
         \A fault \in AliceFaults(msg) :
            AliceHandleXMRLock(msg, fault) => ~alice'.walletOpen]_vars

\* The key pairs written to the recovery file and the wallets generated.
Files == {e.secret : e \in {f \in hist : f.ev = "file"}}

Wallets == {e.secret : e \in {f \in hist : f.ev = "wallet"}}

\* C22: Bob's handling of NotifyRefund generates a wallet only from a key
\* pair it has written to the recovery file, and latches success only with
\* the file written and the wallet generated; when the write fails, no wallet
\* is generated and success is as it was.
C22_FileBeforeLatch ==
    /\ [](Wallets \subseteq Files)
    /\ [][\/ bob.pc # "idle"
          \/ hist' = hist /\ bob' = bob
          \/ \A msg \in {m \in ToBob : m.type = NotifyRefund} :
             \A fault \in BobFaults(msg) :
                BobHandleRefund(msg, fault)
                => /\ Wallets' \subseteq Files'
                   /\ (bob'.success /\ ~bob.success)
                        => \E k \in Files' : k \in Wallets'
                   /\ fault = "WriteKeysToFile"
                        => hist' = hist /\ bob'.success = bob.success]_vars

\* Bob has handled NotifyRefund for the refunded escrow: the file is written,
\* the wallet generated and success latched.
C22_Witness ==
    /\ chain.escrow = "Refunded"
    /\ "sA" \in Files
    /\ "sA" \in Wallets
    /\ bob.success
    /\ bobRet = Ret("nil", TRUE, "nil")

\* The claims of Bob's session that went through.
ClaimsDone == {e \in hist : e.ev = "claim" /\ e.ok}

C24_PreT0WatchdogSafety ==
    /\ \A e \in hist : (e.ev = "refund" /\ e.by = "pre-t0") => (e.at = "pre" /\ ~e.ready)
    /\ [][(\E e \in hist' \ hist : e.ev = "refund" /\ e.by = "pre-t0")
            => alice.xmrLockedCh = "open"]_vars

\* C25: every refund the post-t1 watchdog of Alice submits is submitted at or
\* after t1, and its select takes the timer case only with claimedCh open
\* (NotifyClaimed not handled) and the context of the session not cancelled.
C25_PostT1WatchdogSafety ==
    /\ \A e \in hist : (e.ev = "refund" /\ e.by = "post-t1") => e.at = "post"
    /\ [][(aliceW1 = "select" /\ aliceW1' = "refund")
            => /\ now >= alice.t1
               /\ alice.claimedCh = "open"
               /\ ~alice.cancelled]_vars

\* The claims Bob's watchdog has submitted.
WatchdogClaims == {e \in hist : e.ev = "claim" /\ e.by = "watchdog"}

\* C26: once Bob has locked and his t0 watchdog runs, then, unless NotifyReady
\* is delivered or the session is cancelled, the watchdog submits a claim, at
\* or after t0 and only once; when the claim goes through it sends
\* NotifyClaimed with the hash of the transaction, and otherwise nothing.
C26_BobWatchdogClaims ==
    /\ (bobW = "select")
          ~> (WatchdogClaims # {} \/ bob.readyCh = "closed" \/ bob.cancelled)
    /\ [](\A e \in WatchdogClaims : e.at \in {"mid", "post"})
    /\ [][/\ bobW = "returned" => bobW' = "returned"
          /\ WatchdogClaims' # WatchdogClaims =>
                /\ bobW = "claim" /\ bobW' = "returned"
                /\ now >= bob.t0
                /\ toAlice' = IF \E e \in WatchdogClaims' \ WatchdogClaims : e.ok
                              THEN Append(toAlice, [type |-> NotifyClaimed,
                                                    TxHash |-> ClaimTx])
                              ELSE toAlice]_vars

\* Bob's watchdog has claimed at t0 an escrow for which no NotifyReady was
\* delivered, and NotifyClaimed is on the stream.
C26_Witness ==
    /\ \E e \in WatchdogClaims : e.ok /\ ~e.notified
    /\ bob.readyCh = "open"
    /\ ~bob.cancelled
    /\ xmr.locked
    /\ \E i \in DOMAIN toAlice : toAlice[i] = [type |-> NotifyClaimed, TxHash |-> ClaimTx]

\* What tryRefund and tryClaim have submitted.
RecoveryEvents == {e \in hist : e.ev \in {"refund", "claim"} /\ e.by \in {"tryRefund", "tryClaim"}}

\* ProtocolComplete goes on to tryRefund or tryClaim exactly when success is
\* false and a message after the deployment is expected; otherwise it submits
\* nothing; and where it returns, the context is cancelled.
RecoveryGuard ==
    /\ AliceProtocolComplete =>
          IF ~alice.success /\ alice.nextExpectedMessage \in {NotifyXMRLock, NotifyClaimed}
          THEN alice'.pc = "tryRefund" /\ hist' = hist
          ELSE alice'.pc = "done" /\ alice'.cancelled /\ hist' = hist
    /\ BobProtocolComplete =>
          IF ~bob.success /\ bob.nextExpectedMessage = NotifyReady
          THEN bob'.pc = "tryClaim" /\ hist' = hist
          ELSE bob'.pc = "done" /\ bob'.cancelled /\ hist' = hist
    /\ RecoveryEvents' # RecoveryEvents =>
          \/ alice.pc = "tryRefund" /\ alice'.pc = "done" /\ alice'.cancelled
          \/ bob.pc = "tryClaim" /\ bob'.pc = "done" /\ bob'.cancelled

\* C27 as stated: ProtocolComplete submits a transaction if and only if
\* success is false and nextExpectedMessage is NotifyXMRLock or NotifyClaimed
\* (Alice: refund) or NotifyReady (Bob: claim), and cancels the context in
\* every branch.
C27_RecoveryGuard ==
    [][/\ RecoveryGuard
       /\ AliceTryRefund("none") =>
             /\ \E e \in hist' \ hist : e.ev = "refund" /\ e.by = "tryRefund"
             /\ alice'.cancelled
       /\ BobTryClaim("none") =>
             /\ \E e \in hist' \ hist : e.ev = "claim" /\ e.by = "tryClaim"
             /\ bob'.cancelled]_vars

\* The returns of HandleProtocolMessage that are not terminal.
AliceGoesOn == {Ret(NotifyContractDeployed, FALSE, "nil"), Ret(NotifyReady, FALSE, "nil")}

BobGoesOn == {Ret("nil", FALSE, "nil"), Ret(NotifyXMRLock, FALSE, "nil")}

\* C28: whatever HandleProtocolMessage returns with an error it returns with
\* the terminal flag; it returns without the flag only from SendKeys, from
\* NotifyContractDeployed (Bob) and from NotifyXMRLock (Alice), handled with
\* no error.
C28_ErrorsAreTerminal ==
    /\ aliceRet.err # "nil" => aliceRet.done
    /\ bobRet.err # "nil" => bobRet.done
    /\ (aliceRet # NoRet /\ ~aliceRet.done) => aliceRet \in AliceGoesOn
    /\ (bobRet # NoRet /\ ~bobRet.done) => bobRet \in BobGoesOn
    /\ aliceRet = Ret(NotifyContractDeployed, FALSE, "nil") => alice.bobKeys
    /\ aliceRet = Ret(NotifyReady, FALSE, "nil") => ReadyCalled
    /\ bobRet = Ret("nil", FALSE, "nil") => bob.alicePublicKeys
    /\ bobRet = Ret(NotifyXMRLock, FALSE, "nil") => xmr.locked

\* Alice has refused a message at the gate, with an error and the flag.
C28_Witness ==
    /\ aliceRet = Unexpected
    /\ alice.pc = "idle"
    /\ alice.nextExpectedMessage = NotifyXMRLock

\* What a step announces: the messages it adds to a stream and the responses
\* HandleProtocolMessage returns in it.
Announced ==
    (IF Len(toBob') > Len(toBob) THEN {toBob'[Len(toBob')].type} ELSE {})
    \cup (IF Len(toAlice') > Len(toAlice) THEN {toAlice'[Len(toAlice')].type} ELSE {})
    \cup (IF aliceRet' # aliceRet THEN {aliceRet'.resp} ELSE {})
    \cup (IF bobRet' # bobRet THEN {bobRet'.resp} ELSE {})

\* C29: a notification is sent or returned only when the action it announces
\* has gone through: NotifyContractDeployed with the escrow deployed and both
\* timeouts read, NotifyXMRLock with the funds locked, NotifyReady with
\* setReady through, NotifyClaimed with a claim through, NotifyRefund with a
\* refund through.
C29_AnnouncementsFollowAction ==
    [][/\ NotifyContractDeployed \in Announced =>
            /\ [ev |-> "deploy"] \in hist'
            /\ chain'.escrow # "none"
            /\ alice'.t0 = chain'.t0 /\ alice'.t1 = chain'.t1
       /\ NotifyXMRLock \in Announced =>
            /\ \E e \in hist' : e.ev = "lock"
            /\ xmr'.locked
            /\ bob'.t0 = chain'.t0 /\ bob'.t1 = chain'.t1
       /\ NotifyReady \in Announced =>
            [ev |-> "setReady", ok |-> TRUE] \in hist'
       /\ NotifyClaimed \in Announced =>
            \E e \in hist' : e.ev = "claim" /\ e.ok
       /\ NotifyRefund \in Announced =>
            \E e \in hist' : e.ev = "refund" /\ e.ok]_vars

\* A watchdog of Alice has refunded and NotifyRefund is on the stream, after
\* an attempt that did not go through and was not announced.
C29_Witness ==
    /\ \E i \in DOMAIN toBob : toBob[i].type = NotifyRefund
    /\ \A i, j \in DOMAIN toBob :
            (toBob[i].type = NotifyRefund /\ toBob[j].type = NotifyRefund) => i = j
    /\ \E e \in hist : e.ev = "refund" /\ e.ok
    /\ \E e \in hist : e.ev = "refund" /\ ~e.ok /\ e.by \in {"pre-t0", "post-t1"}

\* The steps nextExpectedMessage can take.
AliceOrder == {<<SendKeys, NotifyXMRLock>>, <<NotifyXMRLock, NotifyClaimed>>}

BobOrder == {<<SendKeys, NotifyContractDeployed>>, <<NotifyContractDeployed, NotifyReady>>}

\* C30: nextExpectedMessage goes from SendKeys to NotifyXMRLock to
\* NotifyClaimed on Alice and from SendKeys to NotifyContractDeployed to
\* NotifyReady on Bob, one value at a time and never back, and only in a step
\* of HandleProtocolMessage that handles the message that was expected.
C30_NextExpectedForward ==
    [][/\ alice'.nextExpectedMessage # alice.nextExpectedMessage =>
            /\ <<alice.nextExpectedMessage, alice'.nextExpectedMessage>> \in AliceOrder
            /\ \E msg \in ToAlice :
                    msg.type = alice.nextExpectedMessage /\ AliceHandle(msg)
       /\ bob'.nextExpectedMessage # bob.nextExpectedMessage =>
            /\ <<bob.nextExpectedMessage, bob'.nextExpectedMessage>> \in BobOrder
            /\ \E msg \in ToBob :
                    msg.type = bob.nextExpectedMessage /\ BobHandle(msg)]_vars

\* Alice's nextExpectedMessage has reached NotifyClaimed, and her session has
\* gone through a watchdog's refund and ProtocolComplete since.
C30_Witness ==
    /\ alice.nextExpectedMessage = NotifyClaimed
    /\ alice.pc = "done"
    /\ aliceW1 = "returned"
    /\ \E e \in hist : e.ev = "refund" /\ e.by = "post-t1"

\* The pre-t0 watchdog of Alice has submitted a refund that went through.
RefundedByPreT0 == \E e \in hist : e.ev = "refund" /\ e.by = "pre-t0" /\ e.ok

\* The refunds Alice has submitted.
Refunds == {e \in hist : e.ev = "refund"}

\* C31: once the pre-t0 watchdog of Alice has refunded, her session accepts no
\* NotifyXMRLock (no audit, xmrLockedCh stays as it is), calls setReady no
\* more and submits no other refund.
C31_RefundTerminal ==
    [][RefundedByPreT0 =>
            /\ {e \in hist' : e.ev = "audit"} = {e \in hist : e.ev = "audit"}
            /\ alice'.xmrLockedCh = alice.xmrLockedCh
            /\ alice'.nextExpectedMessage = alice.nextExpectedMessage
            /\ ReadyEvents' = ReadyEvents
            /\ Refunds' = Refunds]_vars

\* C32: a step in which a refund of Alice goes through, on whichever path it
\* was submitted, sends Bob a NotifyRefund with the hash of that refund (the
\* send reaches the queue unless the stream to Bob is closed already).
C32_RefundAnnounced ==
    [][(\E e \in Refunds' \ Refunds : e.ok) =>
            \/ bob.pc = "done"
            \/ toBob' = Append(toBob, [type |-> NotifyRefund, TxHash |-> RefundTx])]_vars

\* C33: Alice has submitted a refund only in a session that holds its escrow
\* and has read both timeouts of it; after a failure of the deployment or of
\* a timeout read no refund is submitted.
C33_RefundOnlyDeployed ==
    Refunds # {} => alice.contract /\ alice.t0 # 0 /\ alice.t1 # 0

\* The claims Bob has submitted.
Claims == {e \in hist : e.ev = "claim"}

\* C34: Bob has submitted a claim only in a session that bound the contract
\* and locked its funds; after a failure of setContract or of lockFunds no
\* claim is submitted.
C34_ClaimOnlyAfterLock ==
    Claims # {} => bob.contract # "" /\ (\E e \in hist : e.ev = "lock")

\* C35: whatever the interleaving of the t0 watchdog, the NotifyReady handler
\* and tryClaim, Bob submits at most one claim in a session.
C35_SingleClaim == Cardinality(Claims) <= 1

\* The NotifyXMRLock messages Alice can be handed.
XMRLockMessages == {msg \in Notifications : msg.type = NotifyXMRLock}

\* C36: a NotifyXMRLock whose address is empty or differs from the address
\* Alice derives from the summed keys gets a terminal error and leaves the
\* session and the wallet untouched; Alice goes on to setReady only from the
\* handling of a NotifyXMRLock that carries the derived address, and calls
\* setReady nowhere else.
C36_JointAddressCheck ==
    [][/\ \/ alice.pc # "idle"
          \/ alice.nextExpectedMessage # NotifyXMRLock
          \/ \A msg \in XMRLockMessages :
                (msg.Address # JointAddr /\ AliceHandle(msg)) =>
                    /\ aliceRet' = Failed
                    /\ alice' = alice
                    /\ hist' = hist
       /\ ReadyEvents' # ReadyEvents => alice.pc = "ready"
       /\ (alice'.pc = "ready" /\ alice.pc # "ready") =>
             \E msg \in XMRLockMessages :
                msg.Address = JointAddr /\ AliceHandle(msg)]_vars

\* Alice has called setReady after a NotifyXMRLock with the derived address
\* and an audit of the joint account that found the funds.
C36_Witness ==
    /\ [ev |-> "setReady", ok |-> TRUE] \in hist
    /\ \E e \in hist : e.ev = "audit" /\ e.ok
    /\ alice.nextExpectedMessage = NotifyClaimed
    /\ aliceRet = Ret(NotifyReady, FALSE, "nil")

\* C37: success of Bob is true only in a session that has locked its funds
\* on the joint address and expects NotifyReady; a NotifyRefund handled while
\* SendKeys or NotifyContractDeployed is expected sets no success.
C37_SuccessEarned ==
    bob.success =>
        /\ \E e \in hist : e.ev = "lock"
        /\ bob.nextExpectedMessage = NotifyReady

====
